---- MODULE Spec2Model ----
(***************************************************************************)
(* shuriken16: actor motion (src/actor.rs) and frame composition           *)
(* (src/render.rs) as state machines.                                      *)
(*                                                                         *)
(* Integer ranges: isize/usize values stay far inside the machine word in  *)
(* every reachable state, so << 8, >> 8 and & 0xff are modelled by their   *)
(* arithmetic meaning (times 256, floor division by 256, residue mod 256). *)
(* u16 pixel arithmetic is modelled on 0..65535 with the shifts and masks  *)
(* of the code.                                                            *)
(***************************************************************************)
EXTENDS Integers, Sequences, FiniteSets, TLC

VARIABLES
    actor,      \* ActorInfo of the one modelled actor (without its sprites)
    walls,      \* collision geometry of game_state.map: the set of solid pixels
    calls,      \* the sweep calls of the latest apply_move, in call order
    prev,       \* ActorInfo on entry to the latest apply_move
    ticks,      \* number of apply_move calls so far
    pixel,      \* a render-buffer element (u16) handed to a blend function
    color,      \* the incoming colour (u16) handed to a blend function
    blend,      \* the blend applied to pixel, with the pixel's value before it
    raster,     \* the arguments of one tile rasterizer call (buf: the row before it)
    row_buf,    \* the destination row slice of that call
    rastered,   \* TRUE once the rasterizer has run on row_buf
    game,       \* the GameState snapshot read by the renderer
    render_size,\* RenderSize of the render buffer
    frame_buf,  \* the render buffer (render_buf of render_frame): rows of u16
    drawn,      \* what the latest render call did (its locals and its call log)
    target,     \* the ResolutionTarget
    window,     \* the window size handed to compute_render_sizes
    sizes       \* what compute_render_sizes returned for it

actorVars == <<actor, walls, calls, prev, ticks>>
blendVars == <<pixel, color, blend>>

rasterVars == <<raster, row_buf, rastered>>

renderVars == <<game, render_size, frame_buf, drawn>>

scaleVars == <<target, window, sizes>>

vars == <<actorVars, blendVars, rasterVars, renderVars, scaleVars>>

nonActorVars == <<blendVars, rasterVars, renderVars, scaleVars>>
nonBlendVars == <<actorVars, rasterVars, renderVars, scaleVars>>
nonRasterVars == <<actorVars, blendVars, renderVars, scaleVars>>
nonRenderVars == <<actorVars, blendVars, rasterVars, scaleVars>>
nonScaleVars == <<actorVars, blendVars, rasterVars, renderVars>>

(***************************************************************************)
(* Bounds of the model                                                     *)
(***************************************************************************)
MaxTicks == 3
MaxRowWidth == 3        \* pixels in the tile rows handed to the rasterizers
MaxTileSize == 3        \* tile_width and tile_height of the sampled layers
MaxTiles == 2           \* width and height (in tiles) of the sampled layers
MaxRenderWidth == 4     \* render buffer size
MaxRenderHeight == 3
MaxMinHeight == 5       \* min_height, max_height and window sizes of the
MaxMaxHeight == 8       \* sampled resolution targets
MaxWindowWidth == 12
MaxWindowHeight == 12
MaxScales == 25         \* longest scale loop followed for the large window
VelSlow == 100
VelFast == 456

\* velocities the external update hook may set, in 1/256 pixel per tick
Velocities == { -VelFast, -VelSlow, 0, VelSlow, VelFast }

(***************************************************************************)
(* Option<T>                                                               *)
(***************************************************************************)
None == [some |-> FALSE, val |-> 0]
Some(v) == [some |-> TRUE, val |-> v]

(***************************************************************************)
(* Fixed-point helpers of apply_move                                       *)
(***************************************************************************)
Shl8(v) == v * 256
Shr8(v) == v \div 256       \* arithmetic shift: rounds toward minus infinity
And255(v) == v % 256        \* two's complement & 0xff

(***************************************************************************)
(* ActorInfo::new and the collision bounds                                 *)
(***************************************************************************)
NoBounds == [some |-> FALSE, x |-> 0, y |-> 0, width |-> 0, height |-> 0]
SomeBounds(bx, by, w, h) == [some |-> TRUE, x |-> bx, y |-> by, width |-> w, height |-> h]

ActorInfo_new(x0, y0) ==
    [x |-> x0, y |-> y0, subpixel_x |-> 0, subpixel_y |-> 0,
     velocity_x |-> 0, velocity_y |-> 0, collision_bounds |-> NoBounds]

set_collision_bounds(actor_info, bounds) ==
    [actor_info EXCEPT !.collision_bounds = bounds]

(***************************************************************************)
(* The map's sweeps (map.rs is not part of the sources; modelled from the  *)
(* interface of section 6 of the specification: None when the target is    *)
(* reachable unobstructed, else the furthest reachable coordinate).        *)
(***************************************************************************)
Overlaps(ws, rx, ry, w, h) ==
    \E c \in ws : /\ rx <= c[1] /\ c[1] < rx + w
                  /\ ry <= c[2] /\ c[2] < ry + h

SetMin(S) == CHOOSE m \in S : \A o \in S : m <= o
SetMax(S) == CHOOSE m \in S : \A o \in S : m >= o

sweep_collision_x(ws, bounds, target_x) ==
    LET fwd == { p \in (bounds.x + 1)..target_x :
                    Overlaps(ws, p, bounds.y, bounds.width, bounds.height) }
        bwd == { p \in target_x..(bounds.x - 1) :
                    Overlaps(ws, p, bounds.y, bounds.width, bounds.height) }
    IN  IF fwd # {} THEN Some(SetMin(fwd) - 1)
        ELSE IF bwd # {} THEN Some(SetMax(bwd) + 1)
        ELSE None

sweep_collision_y(ws, bounds, target_y) ==
    LET fwd == { p \in (bounds.y + 1)..target_y :
                    Overlaps(ws, bounds.x, p, bounds.width, bounds.height) }
        bwd == { p \in target_y..(bounds.y - 1) :
                    Overlaps(ws, bounds.x, p, bounds.width, bounds.height) }
    IN  IF fwd # {} THEN Some(SetMin(fwd) - 1)
        ELSE IF bwd # {} THEN Some(SetMax(bwd) + 1)
        ELSE None

(***************************************************************************)
(* Actor::apply_move                                                       *)
(***************************************************************************)
\* lines 45-51: the candidate fixed-point coordinate of one axis
candidate_full(pos, subpixel, velocity) == (Shl8(pos) + subpixel) + velocity

\* lines 57-67: offset and extent of the swept rectangle
collision_rect(collision_bounds) ==
    IF collision_bounds.some
    THEN [x |-> collision_bounds.x, y |-> collision_bounds.y,
          width |-> collision_bounds.width, height |-> collision_bounds.height]
    ELSE [x |-> 0, y |-> 0, width |-> 1, height |-> 1]

\* lines 76-80 / 84-88: the outcome of one axis after its sweep returned ret
resolve_axis_keepvel(ret, full, velocity, offset) ==
    IF ret.some
    THEN [new |-> ret.val - offset, full |-> Shl8(ret.val - offset), velocity |-> velocity]
    ELSE [new |-> Shr8(full), full |-> full, velocity |-> velocity]

resolve_axis(ret, full, velocity, offset) ==
    IF ret.some
    THEN [new |-> ret.val - offset, full |-> Shl8(ret.val - offset), velocity |-> 0]
    ELSE [new |-> Shr8(full), full |-> full, velocity |-> velocity]

\* line 82: the rectangle handed to the Y sweep
bounds_for_y(bounds, new_x, collision_x_offset) ==
    [bounds EXCEPT !.x = new_x + collision_x_offset]

\* lines 90-93: integer pixel and subpixel of a fixed-point coordinate
split_full_truncating(full) ==
    [pos |-> IF full >= 0 THEN full \div 256 ELSE -((-full) \div 256),
     subpixel |-> And255(full)]

split_full(full) == [pos |-> Shr8(full), subpixel |-> And255(full)]

\* the same tick with the two sweeps in the other order (Y resolved first)
apply_move_y_first(actor_info, ws) ==
    LET full_x == candidate_full(actor_info.x, actor_info.subpixel_x, actor_info.velocity_x)
        full_y == candidate_full(actor_info.y, actor_info.subpixel_y, actor_info.velocity_y)
        rect == collision_rect(actor_info.collision_bounds)
        bounds == [x |-> actor_info.x + rect.x, y |-> actor_info.y + rect.y,
                   width |-> rect.width, height |-> rect.height]
        call_y == [fn |-> "sweep_collision_y", bounds |-> bounds,
                   target |-> Shr8(full_y) + rect.y,
                   ret |-> sweep_collision_y(ws, bounds, Shr8(full_y) + rect.y)]
        out_y == resolve_axis(call_y.ret, full_y, actor_info.velocity_y, rect.y)
        bounds_x == [bounds EXCEPT !.y = out_y.new + rect.y]
        call_x == [fn |-> "sweep_collision_x", bounds |-> bounds_x,
                   target |-> Shr8(full_x) + rect.x,
                   ret |-> sweep_collision_x(ws, bounds_x, Shr8(full_x) + rect.x)]
        out_x == resolve_axis(call_x.ret, full_x, actor_info.velocity_x, rect.x)
        fin_x == split_full(out_x.full)
        fin_y == split_full(out_y.full)
    IN  [info |-> [actor_info EXCEPT !.x = fin_x.pos, !.y = fin_y.pos,
                                     !.subpixel_x = fin_x.subpixel,
                                     !.subpixel_y = fin_y.subpixel,
                                     !.velocity_x = out_x.velocity,
                                     !.velocity_y = out_y.velocity],
         calls |-> <<call_y, call_x>>]

apply_move(actor_info, ws) ==
    LET full_x == candidate_full(actor_info.x, actor_info.subpixel_x, actor_info.velocity_x)
        full_y == candidate_full(actor_info.y, actor_info.subpixel_y, actor_info.velocity_y)
        new_x == Shr8(full_x)
        new_y == Shr8(full_y)
        rect == collision_rect(actor_info.collision_bounds)
        bounds == [x |-> actor_info.x + rect.x, y |-> actor_info.y + rect.y,
                   width |-> rect.width, height |-> rect.height]
        call_x == [fn |-> "sweep_collision_x", bounds |-> bounds, target |-> new_x + rect.x,
                   ret |-> sweep_collision_x(ws, bounds, new_x + rect.x)]
        out_x == resolve_axis(call_x.ret, full_x, actor_info.velocity_x, rect.x)
        bounds_y == bounds_for_y(bounds, out_x.new, rect.x)
        call_y == [fn |-> "sweep_collision_y", bounds |-> bounds_y, target |-> new_y + rect.y,
                   ret |-> sweep_collision_y(ws, bounds_y, new_y + rect.y)]
        out_y == resolve_axis(call_y.ret, full_y, actor_info.velocity_y, rect.y)
        fin_x == split_full(out_x.full)
        fin_y == split_full(out_y.full)
    IN  [info |-> [actor_info EXCEPT !.x = fin_x.pos, !.y = fin_y.pos,
                                     !.subpixel_x = fin_x.subpixel,
                                     !.subpixel_y = fin_y.subpixel,
                                     !.velocity_x = out_x.velocity,
                                     !.velocity_y = out_y.velocity],
         calls |-> <<call_x, call_y>>]

(***************************************************************************)
(* The actor state machine: construction, set_collision_bounds and tick    *)
(***************************************************************************)
StartPositions == { <<0, 0>>, <<9, 0>> }

Maps == { {},
          { <<1, 0>> },
          { <<1, -2>>, <<1, -1>> },
          { <<-1, -1>>, <<0, 2>>, <<12, 0>> } }

BoundsChoices == { SomeBounds(1, 0, 2, 1), SomeBounds(-1, -1, 2, 2) }

ActorStart ==
    /\ \E p \in StartPositions : actor = ActorInfo_new(p[1], p[2])
    /\ walls \in Maps
    /\ calls = <<>>
    /\ prev = actor
    /\ ticks = 0

\* Actor::set_collision_bounds, called by the game before the actor first moves
SetCollisionBounds ==
    /\ ticks = 0
    /\ ~actor.collision_bounds.some
    /\ \E b \in BoundsChoices : actor' = set_collision_bounds(actor, b)
    /\ prev' = actor'
    /\ UNCHANGED <<walls, calls, ticks>>
    /\ UNCHANGED nonActorVars

\* Actor::tick with the default (empty) update
TickDefaultUpdate ==
    /\ ticks < MaxTicks
    /\ LET moved == apply_move(actor, walls)
       IN  /\ prev' = actor
           /\ actor' = moved.info
           /\ calls' = moved.calls
    /\ ticks' = ticks + 1
    /\ UNCHANGED walls
    /\ UNCHANGED nonActorVars

\* Actor::tick with an update override that sets the velocity
TickSetVelocity ==
    /\ ticks < MaxTicks
    /\ \E vx \in Velocities, vy \in Velocities :
         LET updated == [actor EXCEPT !.velocity_x = vx, !.velocity_y = vy]
             moved == apply_move(updated, walls)
         IN  /\ prev' = updated
             /\ actor' = moved.info
             /\ calls' = moved.calls
    /\ ticks' = ticks + 1
    /\ UNCHANGED walls
    /\ UNCHANGED nonActorVars

ActorIdle ==
    /\ actor = ActorInfo_new(0, 0)
    /\ walls = {}
    /\ calls = <<>>
    /\ prev = actor
    /\ ticks = 0

NextActor == SetCollisionBounds \/ TickDefaultUpdate \/ TickSetVelocity

(***************************************************************************)
(* BlendEngine: the pixel blend functions of render.rs                     *)
(***************************************************************************)
RECURSIVE BitOr(_, _)
BitOr(a, b) ==
    IF a = 0 THEN b
    ELSE IF b = 0 THEN a
    ELSE (IF a % 2 = 1 \/ b % 2 = 1 THEN 1 ELSE 0) + 2 * BitOr(a \div 2, b \div 2)

U16(v) == v % 65536
Shl(v, n) == U16(v * 2^n)       \* u16 << n
Shr(v, n) == v \div 2^n         \* u16 >> n
Mask5(v) == v % 32              \* & 0x1f

Red(c) == Mask5(Shr(c, 10))
Green(c) == Mask5(Shr(c, 5))
Blue(c) == Mask5(c)

\* (r << 10) | (g << 5) | b
Pack(r, g, b) == BitOr(BitOr(Shl(r, 10), Shl(g, 5)), b)

Saturate(v) == IF v > 31 THEN 31 ELSE v

normal_blend(existing_color, c) == c

add_blend_wrapping(existing_color, c) ==
    Pack(Red(existing_color) + Red(c),
         Green(existing_color) + Green(c),
         Blue(existing_color) + Blue(c))

add_blend(existing_color, c) ==
    Pack(Saturate(Red(existing_color) + Red(c)),
         Saturate(Green(existing_color) + Green(c)),
         Saturate(Blue(existing_color) + Blue(c)))

SubFloor(existing, sub) == IF sub >= existing THEN 0 ELSE existing - sub

subtract_blend(existing_color, c) ==
    Pack(SubFloor(Red(existing_color), Red(c)),
         SubFloor(Green(existing_color), Green(c)),
         SubFloor(Blue(existing_color), Blue(c)))

multiply_blend(existing_color, c) ==
    Pack(Saturate((Red(existing_color) * Red(c)) \div 16),
         Saturate((Green(existing_color) * Green(c)) \div 16),
         Saturate((Blue(existing_color) * Blue(c)) \div 16))

\* a call through a &Fn(&mut u16, u16) that names one of the four functions
BlendModes == { "Normal", "Add", "Subtract", "Multiply" }

call_blend(mode, existing_color, c) ==
    CASE mode = "Normal" -> normal_blend(existing_color, c)
      [] mode = "Add" -> add_blend(existing_color, c)
      [] mode = "Subtract" -> subtract_blend(existing_color, c)
      [] mode = "Multiply" -> multiply_blend(existing_color, c)

\* lines 261-263 with the two weights exchanged
AlphaChannel_weights_swapped(mixed, existing, alpha) ==
    ((mixed * alpha) + (existing * (16 - alpha))) \div 16

AlphaChannel(mixed, existing, alpha) ==
    ((mixed * (16 - alpha)) + (existing * alpha)) \div 16

alpha_blend_no_self_blend(existing_color, c, alpha, mode) ==
    Pack(AlphaChannel(Red(c), Red(existing_color), alpha),
         AlphaChannel(Green(c), Green(existing_color), alpha),
         AlphaChannel(Blue(c), Blue(existing_color), alpha))

alpha_blend(existing_color, c, alpha, mode) ==
    LET mixed_color == call_blend(mode, c, c)
    IN  Pack(AlphaChannel(Red(mixed_color), Red(existing_color), alpha),
             AlphaChannel(Green(mixed_color), Green(existing_color), alpha),
             AlphaChannel(Blue(mixed_color), Blue(existing_color), alpha))

(***************************************************************************)
(* The blend functions applied once to sampled pixels and colours.  The    *)
(* samples put every value 0..31 in every channel, with the three channels *)
(* of one sample different from each other, with and without bit 15.       *)
(***************************************************************************)
ColourSamples ==
    { Pack(r, 31 - r, (7 * r + 3) % 32) + top : r \in 0..31, top \in {0, 32768} }

NoBlend == [op |-> "none", mode |-> "Normal", alpha |-> 0, existing |-> 0]

BlendIdle ==
    /\ pixel = 0
    /\ color = 0
    /\ blend = NoBlend

BlendStart ==
    /\ pixel \in ColourSamples
    /\ color \in ColourSamples
    /\ blend = NoBlend

NormalBlend ==
    /\ blend.op = "none"
    /\ pixel' = normal_blend(pixel, color)
    /\ blend' = [op |-> "raw", mode |-> "Normal", alpha |-> 0, existing |-> pixel]
    /\ UNCHANGED color
    /\ UNCHANGED nonBlendVars

AddBlend ==
    /\ blend.op = "none"
    /\ pixel' = add_blend(pixel, color)
    /\ blend' = [op |-> "raw", mode |-> "Add", alpha |-> 0, existing |-> pixel]
    /\ UNCHANGED color
    /\ UNCHANGED nonBlendVars

SubtractBlend ==
    /\ blend.op = "none"
    /\ pixel' = subtract_blend(pixel, color)
    /\ blend' = [op |-> "raw", mode |-> "Subtract", alpha |-> 0, existing |-> pixel]
    /\ UNCHANGED color
    /\ UNCHANGED nonBlendVars

MultiplyBlend ==
    /\ blend.op = "none"
    /\ pixel' = multiply_blend(pixel, color)
    /\ blend' = [op |-> "raw", mode |-> "Multiply", alpha |-> 0, existing |-> pixel]
    /\ UNCHANGED color
    /\ UNCHANGED nonBlendVars

AlphaBlend ==
    /\ blend.op = "none"
    /\ \E mode \in BlendModes, alpha \in 0..15 :
         /\ pixel' = alpha_blend(pixel, color, alpha, mode)
         /\ blend' = [op |-> "alpha", mode |-> mode, alpha |-> alpha, existing |-> pixel]
    /\ UNCHANGED color
    /\ UNCHANGED nonBlendVars

NextBlend == NormalBlend \/ AddBlend \/ SubtractBlend \/ MultiplyBlend \/ AlphaBlend

(***************************************************************************)
(* The blend closures threaded through the renderers: one of the four      *)
(* functions, or alpha_blend over one of them with a captured alpha.       *)
(***************************************************************************)
RawBlend(mode) == [wrapped |-> FALSE, mode |-> mode, alpha |-> 0]
WrappedBlend(mode, alpha) == [wrapped |-> TRUE, mode |-> mode, alpha |-> alpha]

call_blend_fn(fn, existing_color, c) ==
    IF fn.wrapped
    THEN alpha_blend(existing_color, c, fn.alpha, fn.mode)
    ELSE call_blend(fn.mode, existing_color, c)

(***************************************************************************)
(* TileRasterizer: render_tile_4bit / render_tile_8bit / render_tile_16bit *)
(* Sequences are 1-based: element i of a Rust slice is element i + 1 here. *)
(* The iterations of each loop read and write only render_buf[i], so the   *)
(* loop is the element-wise map below.                                     *)
(***************************************************************************)
NoPalette == [some |-> FALSE, entries |-> <<>>, offset |-> 0]
PaletteWithOffset(entries, offset) == [some |-> TRUE, entries |-> entries, offset |-> offset]

\* &pal_with_offset.palette.entries[pal_with_offset.offset..]
palette_entries(pal) == SubSeq(pal.entries, pal.offset + 1, Len(pal.entries))

\* (tile_data[x / 2] >> (4 * (x & 1))) & 0xf
color_index_4bit_swapped(tile_data, x) ==
    (tile_data[(x \div 2) + 1] \div (IF x % 2 = 0 THEN 16 ELSE 1)) % 16

color_index_4bit(tile_data, x) ==
    (tile_data[(x \div 2) + 1] \div (2 ^ (4 * (x % 2)))) % 16

\* LittleEndian::read_u16(&tile_data[x * 2 .. (x + 1) * 2])
read_u16(tile_data, x) == tile_data[(x * 2) + 1] + 256 * tile_data[(x * 2) + 2]

render_tile_4bit(render_buf, tile_data, left, width, palette, fn) ==
    IF ~palette.some THEN render_buf
    ELSE [i \in 1..Len(render_buf) |->
            IF i - 1 < width /\ color_index_4bit(tile_data, left + (i - 1)) # 0
            THEN call_blend_fn(fn, render_buf[i],
                     palette_entries(palette)[color_index_4bit(tile_data, left + (i - 1)) + 1])
            ELSE render_buf[i]]

render_tile_8bit(render_buf, tile_data, left, width, palette, fn) ==
    IF ~palette.some THEN render_buf
    ELSE [i \in 1..Len(render_buf) |->
            IF i - 1 < width /\ tile_data[left + (i - 1) + 1] # 0
            THEN call_blend_fn(fn, render_buf[i],
                     palette_entries(palette)[tile_data[left + (i - 1) + 1] + 1])
            ELSE render_buf[i]]

render_tile_16bit(render_buf, tile_data, left, width, palette, fn) ==
    [i \in 1..Len(render_buf) |->
        IF i - 1 < width /\ (read_u16(tile_data, left + (i - 1)) \div 32768) % 2 = 0
        THEN call_blend_fn(fn, render_buf[i], read_u16(tile_data, left + (i - 1)))
        ELSE render_buf[i]]

\* a call through the tile_renderer parameter chosen by bit depth
call_tile_renderer(depth, render_buf, tile_data, left, width, palette, fn) ==
    CASE depth = 4 -> render_tile_4bit(render_buf, tile_data, left, width, palette, fn)
      [] depth = 8 -> render_tile_8bit(render_buf, tile_data, left, width, palette, fn)
      [] depth = 16 -> render_tile_16bit(render_buf, tile_data, left, width, palette, fn)

\* ((width * depth) + 7) / 8: bytes in one row of tile or sprite data
pitch_of(width, depth) == ((width * depth) + 7) \div 8

(***************************************************************************)
(* One rasterizer call on sampled rows.  Row data is built from sampled    *)
(* nibbles, palette indices and 16-bit words; the palette holds 16 entries *)
(* behind its offset.                                                      *)
(***************************************************************************)
RECURSIVE SeqsOf(_, _)
SeqsOf(S, n) ==
    IF n = 0 THEN { <<>> }
    ELSE { Append(q, e) : q \in SeqsOf(S, n - 1), e \in S }

RECURSIVE Flatten(_)
Flatten(ss) == IF ss = <<>> THEN <<>> ELSE Head(ss) \o Flatten(Tail(ss))

SampleBytes4 == { lo + 16 * hi : lo \in {0, 5}, hi \in {0, 9} }
SampleBytes8 == { 0, 5, 9 }
SampleWords == { <<0, 0>>, <<255, 127>>, <<52, 146>> }   \* 0x0000, 0x7fff, 0x9234

RowData(depth, width) ==
    CASE depth = 4 -> SeqsOf(SampleBytes4, pitch_of(width, 4))
      [] depth = 8 -> SeqsOf(SampleBytes8, width)
      [] depth = 16 -> { Flatten(ws) : ws \in SeqsOf(SampleWords, width) }

SampleEntries == [k \in 1..18 |-> (k * 1999 + 40000) % 65536]
SamplePalettes == { NoPalette, PaletteWithOffset(SampleEntries, 0),
                    PaletteWithOffset(SampleEntries, 2) }

SampleBlends == { RawBlend(m) : m \in BlendModes } \cup { WrappedBlend(m, 8) : m \in BlendModes }

SampleRow(n) == [i \in 1..n |-> (i * 9001 + 12345) % 65536]

NoRaster == [depth |-> 4, tile_data |-> <<>>, left |-> 0, width |-> 0,
             palette |-> NoPalette, blend |-> RawBlend("Normal"), buf |-> <<>>]

RasterIdle ==
    /\ raster = NoRaster
    /\ row_buf = <<>>
    /\ rastered = FALSE

RasterStart ==
    /\ \E depth \in {4, 8, 16}, row_width \in 1..MaxRowWidth :
         \E data \in RowData(depth, row_width), left \in 0..(row_width - 1) :
           \E width \in 1..(row_width - left), pal \in SamplePalettes, fn \in SampleBlends :
             raster = [depth |-> depth, tile_data |-> data, left |-> left, width |-> width,
                       palette |-> pal, blend |-> fn, buf |-> SampleRow(width)]
    /\ row_buf = raster.buf
    /\ rastered = FALSE

RenderTile4bit ==
    /\ ~rastered /\ raster.depth = 4
    /\ row_buf' = render_tile_4bit(row_buf, raster.tile_data, raster.left, raster.width,
                                   raster.palette, raster.blend)
    /\ rastered' = TRUE
    /\ UNCHANGED raster
    /\ UNCHANGED nonRasterVars

RenderTile8bit ==
    /\ ~rastered /\ raster.depth = 8
    /\ row_buf' = render_tile_8bit(row_buf, raster.tile_data, raster.left, raster.width,
                                   raster.palette, raster.blend)
    /\ rastered' = TRUE
    /\ UNCHANGED raster
    /\ UNCHANGED nonRasterVars

RenderTile16bit ==
    /\ ~rastered /\ raster.depth = 16
    /\ row_buf' = render_tile_16bit(row_buf, raster.tile_data, raster.left, raster.width,
                                    raster.palette, raster.blend)
    /\ rastered' = TRUE
    /\ UNCHANGED raster
    /\ UNCHANGED nonRasterVars

NextRaster == RenderTile4bit \/ RenderTile8bit \/ RenderTile16bit

(***************************************************************************)
(* LayerCompositor: render_layer, render_layer_with_renderer and           *)
(* render_layer_with_blending.  The loops are recursive operators that     *)
(* carry the buffer; an index outside the buffer or the tile data (a Rust  *)
(* panic) sets oob and ends the drawing.                                   *)
(***************************************************************************)
\* isize / isize: the quotient truncated toward zero
TruncDiv(a, b) == IF a >= 0 THEN a \div b ELSE -((-a) \div b)

BiasBase == 1073741824      \* 0x40000000

\* lines 321-322
scroll_bias_unaligned(tile_size, tile_count) == BiasBase

scroll_bias(tile_size, tile_count) == BiasBase - (BiasBase % (tile_size * tile_count))

\* lines 323-324, before the bias is added
effective_scroll(scroll, parallax, auto_scroll, frame) ==
    TruncDiv(scroll * parallax + auto_scroll * frame, 256)

\* TileSet::data_for_time (tile.rs is not part of the sources): the pixel
\* bytes of a tile; the sampled tiles have a single animation frame
data_for_time(tile_set, tile_index, frame) == tile_set.tiles[tile_index + 1].data

\* lines 387-390: one row of one tile
draw_tile_row(st, c, t, pixel_y) ==
    LET y == t.target_y + (pixel_y - t.cur_top_pixel)
    IN  IF \/ st.oob
           \/ y >= Len(st.buf)
           \/ t.target_x + t.width > Len(st.buf[y + 1])
           \/ (pixel_y + 1) * c.tile_pitch > Len(t.tile_data)
        THEN [st EXCEPT !.oob = TRUE]
        ELSE LET row == st.buf[y + 1]
                 tile_data_row == SubSeq(t.tile_data, pixel_y * c.tile_pitch + 1,
                                         (pixel_y + 1) * c.tile_pitch)
                 render_buf_tile == SubSeq(row, t.target_x + 1, t.target_x + t.width)
                 out == call_tile_renderer(c.depth, render_buf_tile, tile_data_row,
                                           t.cur_left_pixel, t.width, t.palette, c.fn)
             IN  [st EXCEPT
                    !.buf[y + 1] = SubSeq(row, 1, t.target_x) \o out
                                     \o SubSeq(row, t.target_x + t.width + 1, Len(row)),
                    !.calls = Append(@, [y |-> y, x |-> t.target_x, width |-> t.width,
                                         col |-> t.col, row |-> t.row,
                                         pixel_y |-> pixel_y, left |-> t.cur_left_pixel])]

\* lines 386-391
RECURSIVE tile_pixel_rows(_, _, _, _)
tile_pixel_rows(st, c, t, pixel_y) ==
    IF pixel_y > t.cur_bottom_pixel THEN st
    ELSE tile_pixel_rows(draw_tile_row(st, c, t, pixel_y), c, t, pixel_y + 1)

\* lines 361-400
RECURSIVE tile_columns(_, _, _, _, _)
tile_columns(st, c, r, tile_x, target_x) ==
    IF tile_x > c.right_tile THEN st
    ELSE
      LET layer == c.layer
          col == tile_x % layer.width
          tile == layer.tiles[r.map_row_index * layer.width + col + 1]
          cur_left_pixel == IF tile_x = c.left_tile THEN c.left_pixel ELSE 0
          cur_right_pixel == IF tile_x = c.right_tile THEN c.right_pixel
                             ELSE layer.tile_width - 1
          t == [tile_data |-> data_for_time(tile.tile_set, tile.tile_index, c.frame),
                palette |-> tile.tile_set.tiles[tile.tile_index + 1].palette,
                cur_left_pixel |-> cur_left_pixel,
                width |-> (cur_right_pixel - cur_left_pixel) + 1,
                cur_top_pixel |-> r.cur_top_pixel,
                cur_bottom_pixel |-> r.cur_bottom_pixel,
                target_x |-> target_x, target_y |-> r.target_y,
                col |-> col, row |-> r.map_row_index]
          seen == [st EXCEPT !.cells = Append(@, [tile_x |-> tile_x, tile_y |-> r.tile_y,
                                                  target_x |-> target_x,
                                                  target_y |-> r.target_y,
                                                  some |-> tile.some])]
          st1 == IF tile.some THEN tile_pixel_rows(seen, c, t, r.cur_top_pixel) ELSE seen
      IN  tile_columns(st1, c, r, tile_x + 1,
                       IF tile_x = c.left_tile
                       THEN target_x + (layer.tile_width - c.left_pixel)
                       ELSE target_x + layer.tile_width)

\* lines 341-408 with the destination row advanced by a full tile height
\* after every row of tiles, the first included
RECURSIVE tile_rows_full_advance(_, _, _, _)
tile_rows_full_advance(st, c, tile_y, target_y) ==
    IF tile_y > c.bottom_tile THEN st
    ELSE
      LET layer == c.layer
          r == [tile_y |-> tile_y,
                map_row_index |-> tile_y % layer.height,
                cur_top_pixel |-> IF tile_y = c.top_tile THEN c.top_pixel ELSE 0,
                cur_bottom_pixel |-> IF tile_y = c.bottom_tile THEN c.bottom_pixel
                                     ELSE layer.tile_height - 1,
                target_y |-> target_y]
      IN  tile_rows_full_advance(tile_columns(st, c, r, c.left_tile, 0), c, tile_y + 1,
                                 target_y + layer.tile_height)

\* lines 341-408
RECURSIVE tile_rows(_, _, _, _)
tile_rows(st, c, tile_y, target_y) ==
    IF tile_y > c.bottom_tile THEN st
    ELSE
      LET layer == c.layer
          r == [tile_y |-> tile_y,
                map_row_index |-> tile_y % layer.height,
                cur_top_pixel |-> IF tile_y = c.top_tile THEN c.top_pixel ELSE 0,
                cur_bottom_pixel |-> IF tile_y = c.bottom_tile THEN c.bottom_pixel
                                     ELSE layer.tile_height - 1,
                target_y |-> target_y]
      IN  tile_rows(tile_columns(st, c, r, c.left_tile, 0), c, tile_y + 1,
                    IF tile_y = c.top_tile
                    THEN target_y + (layer.tile_height - c.top_pixel)
                    ELSE target_y + layer.tile_height)

\* what one render_layer call leaves behind: the buffer, whether an index ran
\* out of range, and the locals of lines 321-324
layer_outcome(st, fn, bias_x, bias_y, scroll_x, scroll_y) ==
    [buf |-> st.buf, oob |-> st.oob, panic |-> FALSE, calls |-> st.calls,
     cells |-> st.cells, fn |-> fn,
     bias_x |-> bias_x, bias_y |-> bias_y,
     scroll_x |-> scroll_x, scroll_y |-> scroll_y]

\* lines 311-409
render_layer_with_blending(size, buf, g, layer, scroll_x_arg, scroll_y_arg, depth, fn) ==
    LET bias_x == scroll_bias(layer.tile_width, layer.width)
        bias_y == scroll_bias(layer.tile_height, layer.height)
        scroll_x == effective_scroll(scroll_x_arg, layer.parallax_x, layer.auto_scroll_x,
                                     g.frame) + bias_x
        scroll_y == effective_scroll(scroll_y_arg, layer.parallax_y, layer.auto_scroll_y,
                                     g.frame) + bias_y
        c == [layer |-> layer, frame |-> g.frame, depth |-> depth, fn |-> fn,
              left_tile |-> scroll_x \div layer.tile_width,
              left_pixel |-> scroll_x % layer.tile_width,
              right_tile |-> (scroll_x + size.width - 1) \div layer.tile_width,
              right_pixel |-> (scroll_x + size.width - 1) % layer.tile_width,
              top_tile |-> scroll_y \div layer.tile_height,
              top_pixel |-> scroll_y % layer.tile_height,
              bottom_tile |-> (scroll_y + size.height - 1) \div layer.tile_height,
              bottom_pixel |-> (scroll_y + size.height - 1) % layer.tile_height,
              tile_pitch |-> pitch_of(layer.tile_width, layer.tile_depth)]
    IN  layer_outcome(tile_rows([buf |-> buf, oob |-> FALSE, calls |-> <<>>,
                                     cells |-> <<>>], c, c.top_tile, 0),
                          fn, bias_x, bias_y, scroll_x, scroll_y)

\* lines 414-447: the blend closure of a layer
layer_blend_fn_always_wrapped(layer) == WrappedBlend(layer.blend_mode, layer.alpha)

layer_blend_fn(layer) ==
    IF layer.alpha = 0 THEN RawBlend(layer.blend_mode)
    ELSE WrappedBlend(layer.blend_mode, layer.alpha)

render_layer_with_renderer(size, buf, g, scroll_x, scroll_y, layer, depth) ==
    render_layer_with_blending(size, buf, g, layer, scroll_x, scroll_y, depth,
                               layer_blend_fn(layer))

\* lines 450-458: any depth other than 4, 8 and 16 panics
render_layer(size, buf, g, scroll_x, scroll_y, layer) ==
    IF layer.tile_depth \in {4, 8, 16}
    THEN render_layer_with_renderer(size, buf, g, scroll_x, scroll_y, layer,
                                    layer.tile_depth)
    ELSE [buf |-> buf, oob |-> FALSE, panic |-> TRUE, calls |-> <<>>, cells |-> <<>>,
          fn |-> layer_blend_fn(layer), bias_x |-> 0, bias_y |-> 0,
          scroll_x |-> 0, scroll_y |-> 0]

(***************************************************************************)
(* Sampled tiles, layers and render buffers.  Pixel (x, y) of sampled tile *)
(* k has palette index SampleIndex(k, x, y) (0: transparent) or, at depth  *)
(* 16, the word SampleWord(k, x, y) (top bit set: transparent).            *)
(***************************************************************************)
SampleIndex(k, x, y) ==
    LET v == (x + 2 * y + k) % 4 IN IF v = 3 THEN 15 ELSE v

SampleWord(k, x, y) ==
    LET v == (x + 2 * y + k) % 4
    IN  IF v = 0 THEN 32768 + 291 ELSE (v * 7919 + k * 1031 + x * 33 + y) % 32768

SampleTileData(depth, tw, th, k) ==
    LET pitch == pitch_of(tw, depth)
    IN  [j \in 1..(pitch * th) |->
          LET y == (j - 1) \div pitch
              b == (j - 1) % pitch
          IN  CASE depth = 4 ->
                     SampleIndex(k, 2 * b, y)
                       + 16 * (IF 2 * b + 1 < tw THEN SampleIndex(k, 2 * b + 1, y) ELSE 0)
                [] depth = 8 -> SampleIndex(k, b, y)
                [] depth = 16 ->
                     IF b % 2 = 0 THEN SampleWord(k, b \div 2, y) % 256
                     ELSE SampleWord(k, b \div 2, y) \div 256]

SampleTileSet(depth, tw, th) ==
    [tiles |-> << [data |-> SampleTileData(depth, tw, th, 0),
                   palette |-> PaletteWithOffset(SampleEntries, 0)],
                  [data |-> SampleTileData(depth, tw, th, 1),
                   palette |-> PaletteWithOffset(SampleEntries, 2)] >>]

NoTile == [some |-> FALSE, tile_set |-> [tiles |-> <<>>], tile_index |-> 0]
TileRef(ts, k) == [some |-> TRUE, tile_set |-> ts, tile_index |-> k]

\* pattern 0: every cell populated; pattern 1: the cells with col + row odd empty
SampleCells(pattern, depth, tw, th, w, h) ==
    [j \in 1..(w * h) |->
       LET col == (j - 1) % w
           row == (j - 1) \div w
       IN  IF pattern = 1 /\ (col + row) % 2 = 1 THEN NoTile
           ELSE TileRef(SampleTileSet(depth, tw, th), (col + row) % 2)]

SampleLayer(pattern, depth, tw, th, w, h, sc, mode, alpha) ==
    [tiles |-> SampleCells(pattern, depth, tw, th, w, h),
     width |-> w, height |-> h, tile_width |-> tw, tile_height |-> th,
     tile_depth |-> depth,
     parallax_x |-> sc.parallax_x, parallax_y |-> sc.parallax_y,
     auto_scroll_x |-> sc.auto_scroll_x, auto_scroll_y |-> sc.auto_scroll_y,
     blend_mode |-> mode, alpha |-> alpha]

\* scroll, parallax, auto-scroll and frame counter of the sampled snapshots
ScrollCases ==
    { [scroll_x |-> 0, scroll_y |-> 0, parallax_x |-> 256, parallax_y |-> 256,
       auto_scroll_x |-> 0, auto_scroll_y |-> 0, frame |-> 0],
      [scroll_x |-> -3, scroll_y |-> 2, parallax_x |-> 256, parallax_y |-> 256,
       auto_scroll_x |-> 0, auto_scroll_y |-> 0, frame |-> 0],
      [scroll_x |-> 5, scroll_y |-> -1, parallax_x |-> 128, parallax_y |-> 128,
       auto_scroll_x |-> 0, auto_scroll_y |-> 0, frame |-> 7],
      [scroll_x |-> -5, scroll_y |-> 3, parallax_x |-> 128, parallax_y |-> 512,
       auto_scroll_x |-> 256, auto_scroll_y |-> -300, frame |-> 1] }

SampleAlphas == { 0, 8 }

RenderSizes == { [width |-> 1, height |-> 1],
                 [width |-> MaxRenderWidth, height |-> MaxRenderHeight] }

\* a render buffer holding what earlier drawing left in it
SampleBuffer(size) ==
    [y \in 1..size.height |->
       [x \in 1..size.width |-> (x * 4111 + y * 9001 + 30000) % 65536]]

NoDraw == [op |-> "none"]

RenderIdle ==
    /\ game = [map |-> [background_color |-> 0, layers |-> <<>>],
               ui_layers |-> <<>>, actors |-> <<>>,
               scroll_x |-> 0, scroll_y |-> 0, frame |-> 0]
    /\ render_size = [width |-> 1, height |-> 1]
    /\ frame_buf = <<<<0>>>>
    /\ drawn = NoDraw

(***************************************************************************)
(* render_layer applied once to a sampled layer                            *)
(***************************************************************************)
LayerStart ==
    /\ \E depth \in {4, 8, 16}, mode \in BlendModes, alpha \in SampleAlphas,
          pattern \in {0, 1}, sc \in ScrollCases :
         \E tw \in 1..MaxTileSize, th \in 1..MaxTileSize,
            w \in 1..MaxTiles, h \in 1..MaxTiles :
           game = [map |-> [background_color |-> 0,
                            layers |-> << SampleLayer(pattern, depth, tw, th, w, h,
                                                      sc, mode, alpha) >>],
                   ui_layers |-> <<>>, actors |-> <<>>,
                   scroll_x |-> sc.scroll_x, scroll_y |-> sc.scroll_y,
                   frame |-> sc.frame]
    /\ render_size \in RenderSizes
    /\ frame_buf = SampleBuffer(render_size)
    /\ drawn = NoDraw

RenderLayer ==
    /\ drawn.op = "none"
    /\ drawn' = [op |-> "render_layer", before |-> frame_buf,
                 out |-> render_layer(render_size, frame_buf, game, game.scroll_x,
                                      game.scroll_y, game.map.layers[1])]
    /\ frame_buf' = drawn'.out.buf
    /\ UNCHANGED <<game, render_size>>
    /\ UNCHANGED nonRenderVars

NextLayer == RenderLayer

(***************************************************************************)
(* FrameComposer: render_sprite, render_sprite_with_renderer, render_frame *)
(* The drawing state st carries the buffer, the UI layers (their update    *)
(* callback mutates them), the log of drawing steps and the panic flags.   *)
(***************************************************************************)
\* SpriteAnimation::data_for_time (sprite.rs is not part of the sources): the
\* pixel bytes of the animation; the sampled animations have a single frame
animation_data_for_time(animation, frame) == animation.data

\* line 506: sprites are drawn through &normal_blend
sprite_blend_fn == RawBlend("Normal")

\* lines 502-507
RECURSIVE sprite_rows(_, _, _, _)
sprite_rows(st, sp, depth, pixel_y) ==
    IF pixel_y >= sp.height THEN st
    ELSE
      IF \/ st.oob
         \/ sp.y_start + pixel_y >= Len(st.buf)
         \/ sp.x_start + sp.width > Len(st.buf[sp.y_start + pixel_y + 1])
         \/ (sp.y_offset + pixel_y + 1) * sp.pitch > Len(sp.sprite_data)
      THEN [st EXCEPT !.oob = TRUE]
      ELSE
        LET row == st.buf[sp.y_start + pixel_y + 1]
            row_data == SubSeq(sp.sprite_data, (sp.y_offset + pixel_y) * sp.pitch + 1,
                               (sp.y_offset + pixel_y + 1) * sp.pitch)
            render_buf_tile == SubSeq(row, sp.x_start + 1, sp.x_start + sp.width)
            out == call_tile_renderer(depth, render_buf_tile, row_data, sp.x_offset,
                                      sp.width, sp.palette, sprite_blend_fn)
        IN  sprite_rows(
              [st EXCEPT !.buf[sp.y_start + pixel_y + 1] =
                 SubSeq(row, 1, sp.x_start) \o out
                   \o SubSeq(row, sp.x_start + sp.width + 1, Len(row))],
              sp, depth, pixel_y + 1)

\* lines 460-508
render_sprite_with_renderer(size, st, x, y, animation, frame, depth) ==
    IF \/ x >= size.width \/ y >= size.height
       \/ x <= -animation.width \/ y <= -animation.height
    THEN st
    ELSE
      LET x_offset == IF x < 0 THEN -x ELSE 0
          y_offset == IF y < 0 THEN -y ELSE 0
          x_start == IF x < 0 THEN 0 ELSE x
          y_start == IF y < 0 THEN 0 ELSE y
          width0 == animation.width - x_offset
          height0 == animation.height - y_offset
          sp == [x_offset |-> x_offset, y_offset |-> y_offset,
                 x_start |-> x_start, y_start |-> y_start,
                 width |-> IF x_start + width0 > size.width
                           THEN size.width - x_start ELSE width0,
                 height |-> IF y_start + height0 > size.height
                            THEN size.height - y_start ELSE height0,
                 sprite_data |-> animation_data_for_time(animation, frame),
                 pitch |-> pitch_of(animation.width, animation.depth),
                 palette |-> animation.palette]
      IN  sprite_rows(st, sp, depth, 0)

\* lines 510-518
render_sprite(size, st, x, y, animation, frame) ==
    IF animation.depth \in {4, 8, 16}
    THEN render_sprite_with_renderer(size, st, x, y, animation, frame, animation.depth)
    ELSE [st EXCEPT !.panic = TRUE]

Logged(st, op, a, b) == [st EXCEPT !.log = Append(@, [op |-> op, a |-> a, b |-> b])]

Aborted(st) == st.oob \/ st.panic

\* lines 522-528
fill_background(st, size, g) ==
    IF Len(st.buf) < size.height
       \/ \E y \in 1..size.height : Len(st.buf[y]) < size.width
    THEN [st EXCEPT !.oob = TRUE]
    ELSE Logged([st EXCEPT !.buf =
                   [y \in 1..Len(st.buf) |->
                      [x \in 1..Len(st.buf[y]) |->
                         IF y <= size.height /\ x <= size.width
                         THEN g.map.background_color ELSE st.buf[y][x]]]],
                "fill", 0, 0)

\* one render_layer call inside render_frame
layer_drawn(st, out) == [st EXCEPT !.buf = out.buf, !.oob = out.oob, !.panic = out.panic]

draw_layer(st, size, g, scroll_x, scroll_y, layer, op, index) ==
    layer_drawn(Logged(st, op, index, 0),
                render_layer(size, st.buf, g, scroll_x, scroll_y, layer))

\* lines 531-533
RECURSIVE draw_map_layers_from(_, _, _, _)
draw_map_layers_from(st, size, g, i) ==
    IF i > Len(g.map.layers) \/ Aborted(st) THEN st
    ELSE draw_map_layers_from(
           draw_layer(st, size, g, g.scroll_x, g.scroll_y, g.map.layers[i], "map_layer", i),
           size, g, i + 1)

draw_map_layers(st, size, g) == draw_map_layers_from(st, size, g, 1)

\* UILayer::update (ui.rs is not part of the sources): the callback rewrites
\* the tiles of the backing map layer with the content it has pending
ui_layer_update(ui_layer, g) ==
    [ui_layer EXCEPT !.map_layer.tiles = ui_layer.pending]

\* lines 535-546
RECURSIVE draw_ui_layers_from(_, _, _, _)
draw_ui_layers_from(st, size, g, j) ==
    IF j > Len(st.ui_layers) \/ Aborted(st) THEN st
    ELSE
      LET updated == Logged([st EXCEPT !.ui_layers[j] = ui_layer_update(@, g)],
                            "ui_update", j, 0)
          map_layer == updated.ui_layers[j].map_layer
          layer_width == map_layer.width * map_layer.tile_width
          layer_height == map_layer.height * map_layer.tile_height
          scroll_x == TruncDiv(size.width - layer_width, 2)
          scroll_y == TruncDiv(size.height - layer_height, 2)
      IN  draw_ui_layers_from(
            draw_layer(updated, size, g, scroll_x, scroll_y, map_layer, "ui_layer", j),
            size, g, j + 1)

draw_ui_layers(st, size, g) == draw_ui_layers_from(st, size, g, 1)

\* lines 551-554
RECURSIVE draw_sprites_from(_, _, _, _, _)
draw_sprites_from(st, size, g, a, k) ==
    IF k > Len(g.actors[a].sprites) \/ Aborted(st) THEN st
    ELSE
      LET actor_info == g.actors[a]
          sprite == actor_info.sprites[k]
      IN  draw_sprites_from(
            render_sprite(size, Logged(st, "sprite", a, k),
                          actor_info.x + sprite.x_offset - g.scroll_x,
                          actor_info.y + sprite.y_offset - g.scroll_y,
                          sprite.animation, sprite.animation_frame),
            size, g, a, k + 1)

\* lines 548-555
RECURSIVE draw_actors_from(_, _, _, _)
draw_actors_from(st, size, g, a) ==
    IF a > Len(g.actors) \/ Aborted(st) THEN st
    ELSE draw_actors_from(draw_sprites_from(st, size, g, a, 1), size, g, a + 1)

draw_actors(st, size, g) == draw_actors_from(st, size, g, 1)

FrameState(buf, g) ==
    [buf |-> buf, oob |-> FALSE, panic |-> FALSE, log |-> <<>>, ui_layers |-> g.ui_layers]

\* the same steps with the sprites drawn before the layers
render_frame_sprites_first(size, buf, g) ==
    draw_ui_layers(
      draw_map_layers(
        draw_actors(fill_background(FrameState(buf, g), size, g), size, g),
        size, g),
      size, g)

render_frame(size, buf, g) ==
    draw_actors(
      draw_ui_layers(
        draw_map_layers(fill_background(FrameState(buf, g), size, g), size, g),
        size, g),
      size, g)

(***************************************************************************)
(* render_frame applied once to a sampled scene: one or two map layers, a  *)
(* UI layer whose update installs its content, and an actor carrying two   *)
(* overlapping sprites.                                                    *)
(***************************************************************************)
SampleAnimation(depth, k) ==
    [width |-> 2, height |-> 2, depth |-> depth,
     palette |-> PaletteWithOffset(SampleEntries, 2 * k),
     data |-> SampleTileData(depth, 2, 2, k + 1)]

SampleActor(pos, depth) ==
    [x |-> pos[1], y |-> pos[2],
     sprites |-> << [animation |-> SampleAnimation(depth, 0), animation_frame |-> 0,
                     x_offset |-> 0, y_offset |-> 0],
                    [animation |-> SampleAnimation(depth, 1), animation_frame |-> 0,
                     x_offset |-> 1, y_offset |-> -1] >>]

ActorPositions == { <<0, 0>>, <<-1, 1>>, <<2, 2>>, <<9, 9>> }

UIBlendCases == { <<"Normal", 0>>, <<"Add", 8>>, <<"Subtract", 0>>, <<"Multiply", 8>> }

FrameScrolls ==
    { [scroll_x |-> 0, scroll_y |-> 0, parallax_x |-> 256, parallax_y |-> 256,
       auto_scroll_x |-> 0, auto_scroll_y |-> 0, frame |-> 0],
      [scroll_x |-> -1, scroll_y |-> 1, parallax_x |-> 128, parallax_y |-> 256,
       auto_scroll_x |-> 64, auto_scroll_y |-> 0, frame |-> 3] }

StillCase == [scroll_x |-> 0, scroll_y |-> 0, parallax_x |-> 256, parallax_y |-> 256,
              auto_scroll_x |-> 0, auto_scroll_y |-> 0, frame |-> 0]

SampleUILayer(mode, alpha) ==
    LET layer == SampleLayer(0, 8, 2, 2, 2, 1, StillCase, mode, alpha)
    IN  [map_layer |-> [layer EXCEPT !.tiles = [j \in 1..2 |-> NoTile]],
         pending |-> layer.tiles]

FrameStart ==
    /\ \E depth \in {4, 8, 16}, mode \in BlendModes, alpha \in SampleAlphas,
          ui \in UIBlendCases, sc \in FrameScrolls,
          pos \in ActorPositions, sprite_depth \in {4, 8, 16}, n \in 1..2 :
         game = [map |-> [background_color |-> 33825,
                          layers |-> SubSeq(
                            << SampleLayer(0, depth, 2, 1, 1, 2, sc, mode, alpha),
                               SampleLayer(1, 4, 1, 2, 2, 2, sc, "Subtract", 4) >>, 1, n)],
                 ui_layers |-> << SampleUILayer(ui[1], ui[2]) >>,
                 actors |-> << SampleActor(pos, sprite_depth) >>,
                 scroll_x |-> sc.scroll_x, scroll_y |-> sc.scroll_y,
                 frame |-> sc.frame]
    /\ render_size \in RenderSizes
    /\ frame_buf = SampleBuffer(render_size)
    /\ drawn = NoDraw

RenderFrame ==
    /\ drawn.op = "none"
    /\ drawn' = [op |-> "render_frame", before |-> frame_buf,
                 out |-> render_frame(render_size, frame_buf, game), snapshot |-> game]
    /\ frame_buf' = drawn'.out.buf
    /\ game' = [game EXCEPT !.ui_layers = drawn'.out.ui_layers]
    /\ UNCHANGED render_size
    /\ UNCHANGED nonRenderVars

NextFrame == RenderFrame

(***************************************************************************)
(* ResolutionScaler: ResolutionTarget and compute_render_sizes.            *)
(* An aspect ratio (f32 in the code) is the pair [num, den]; for the       *)
(* window sizes sampled here comparing the f32 values agrees with          *)
(* comparing the ratios exactly.  The f32 quotient and product of the two  *)
(* clamp branches are truncated to usize; when the exact result is a whole *)
(* number the rounded one may fall just below it, which `slack` chooses.   *)
(***************************************************************************)
Ratio(n, d) == [num |-> n, den |-> d]

fixed_vertical_resolution(height) ==
    [mode |-> "FixedVerticalResolution", min_height |-> height, max_height |-> height,
     min_aspect_ratio |-> Ratio(4, 3), max_aspect_ratio |-> Ratio(18, 9)]

fixed_vertical_resolution_with_aspect_ratio(height, min_aspect_ratio, max_aspect_ratio) ==
    [mode |-> "FixedVerticalResolution", min_height |-> height, max_height |-> height,
     min_aspect_ratio |-> min_aspect_ratio, max_aspect_ratio |-> max_aspect_ratio]

pixel_perfect(min_height, max_height) ==
    [mode |-> "PixelPerfect", min_height |-> min_height, max_height |-> max_height,
     min_aspect_ratio |-> Ratio(4, 3), max_aspect_ratio |-> Ratio(18, 9)]

pixel_perfect_with_aspect_ratio(min_height, max_height, min_aspect_ratio, max_aspect_ratio) ==
    [mode |-> "PixelPerfect", min_height |-> min_height, max_height |-> max_height,
     min_aspect_ratio |-> min_aspect_ratio, max_aspect_ratio |-> max_aspect_ratio]

\* (a as f32 / ratio) as usize
f32_div_to_usize(a, ratio, slack) ==
    LET q == (a * ratio.den) \div ratio.num
    IN  IF (a * ratio.den) % ratio.num = 0 /\ slack = 1 /\ q > 0 THEN q - 1 ELSE q

\* (a as f32 * ratio) as usize
f32_mul_to_usize(a, ratio, slack) ==
    LET q == (a * ratio.num) \div ratio.den
    IN  IF (a * ratio.num) % ratio.den = 0 /\ slack = 1 /\ q > 0 THEN q - 1 ELSE q

\* lines 83-100; window_height == 0 panics in the integer division of line 86
compute_render_size_for_height(self, window_width, window_height, target_height, slack) ==
    IF window_height = 0
    THEN [panic |-> TRUE, target_height |-> target_height,
          render |-> [width |-> 0, height |-> 0], dest |-> [width |-> 0, height |-> 0]]
    ELSE
      LET render_width == (target_height * window_width) \div window_height
          below == window_width * self.min_aspect_ratio.den
                     < self.min_aspect_ratio.num * window_height
          above == window_width * self.max_aspect_ratio.den
                     > self.max_aspect_ratio.num * window_height
      IN  [panic |-> FALSE, target_height |-> target_height,
           render |->
             [width |-> IF ~below /\ above
                        THEN f32_mul_to_usize(target_height, self.max_aspect_ratio, slack)
                        ELSE render_width,
              height |-> IF below
                         THEN f32_div_to_usize(render_width, self.min_aspect_ratio, slack)
                         ELSE target_height],
           dest |->
             [width |-> IF ~below /\ above
                        THEN f32_mul_to_usize(window_height, self.max_aspect_ratio, slack)
                        ELSE window_width,
              height |-> IF below
                         THEN f32_div_to_usize(window_width, self.min_aspect_ratio, slack)
                         ELSE window_height]]

\* lines 107-117 without the loop: the window height clamped to the range
pixel_perfect_target_height_clamped(self, window_height, scale) ==
    IF window_height < self.min_height THEN self.min_height
    ELSE IF window_height <= self.max_height THEN window_height
    ELSE self.max_height

\* lines 107-117: the loop over scale, entered with scale = 1
RECURSIVE pixel_perfect_target_height(_, _, _)
pixel_perfect_target_height(self, window_height, scale) ==
    LET pre_scaled_height == window_height \div scale
    IN  IF pre_scaled_height < self.min_height THEN self.min_height
        ELSE IF pre_scaled_height <= self.max_height THEN pre_scaled_height
        ELSE pixel_perfect_target_height(self, window_height, scale + 1)

\* lines 102-121
compute_render_sizes(self, window_width, window_height, slack) ==
    IF self.mode = "FixedVerticalResolution"
    THEN compute_render_size_for_height(self, window_width, window_height,
                                        self.max_height, slack)
    ELSE compute_render_size_for_height(self, window_width, window_height,
                                        pixel_perfect_target_height(self, window_height, 1),
                                        slack)

(***************************************************************************)
(* compute_render_sizes applied once to a sampled target and window        *)
(***************************************************************************)
MinHeights == (0..MaxMinHeight) \cup {200}
MaxHeights == (0..MaxMaxHeight) \cup {300}
WindowWidths == (0..MaxWindowWidth) \cup {1600}
\* the 1000-pixel window goes to the targets whose min_height ends the loop
\* of lines 108-117 within MaxScales scales
WindowHeights(self) ==
    (0..MaxWindowHeight)
      \cup { h \in {1000} : h \div MaxScales < self.min_height }

NoSizes == [panic |-> FALSE, target_height |-> 0,
            render |-> [width |-> 0, height |-> 0], dest |-> [width |-> 0, height |-> 0]]
NoWindow == [width |-> 0, height |-> 0, given |-> FALSE]

ScaleIdle ==
    /\ target = fixed_vertical_resolution(0)
    /\ window = NoWindow
    /\ sizes = NoSizes

ScaleStart ==
    /\ target \in
         { pixel_perfect(lo, hi) : lo \in MinHeights, hi \in MaxHeights }
         \cup { pixel_perfect_with_aspect_ratio(lo, hi, Ratio(1, 1), Ratio(3, 2)) :
                  lo \in MinHeights, hi \in MaxHeights }
         \cup { fixed_vertical_resolution(h) : h \in MaxHeights }
         \cup { fixed_vertical_resolution_with_aspect_ratio(h, Ratio(1, 1), Ratio(3, 2)) :
                  h \in MaxHeights }
    /\ window = NoWindow
    /\ sizes = NoSizes

ComputeRenderSizes ==
    /\ ~window.given
    /\ \E window_width \in WindowWidths, window_height \in WindowHeights(target), slack \in {0, 1} :
         /\ window' = [width |-> window_width, height |-> window_height, given |-> TRUE]
         /\ sizes' = compute_render_sizes(target, window_width, window_height, slack)
    /\ UNCHANGED target
    /\ UNCHANGED nonScaleVars

NextScale == ComputeRenderSizes

(***************************************************************************)
(* Specifications                                                          *)
(***************************************************************************)
InitActor == ActorStart /\ BlendIdle /\ RasterIdle /\ RenderIdle /\ ScaleIdle
SpecActor == InitActor /\ [][NextActor]_vars

InitBlend == BlendStart /\ ActorIdle /\ RasterIdle /\ RenderIdle /\ ScaleIdle
SpecBlend == InitBlend /\ [][NextBlend]_vars

InitRaster == RasterStart /\ ActorIdle /\ BlendIdle /\ RenderIdle /\ ScaleIdle
SpecRaster == InitRaster /\ [][NextRaster]_vars

InitLayer == LayerStart /\ ActorIdle /\ BlendIdle /\ RasterIdle /\ ScaleIdle
SpecLayer == InitLayer /\ [][NextLayer]_vars

InitFrame == FrameStart /\ ActorIdle /\ BlendIdle /\ RasterIdle /\ ScaleIdle
SpecFrame == InitFrame /\ [][NextFrame]_vars

InitScale == ScaleStart /\ ActorIdle /\ BlendIdle /\ RasterIdle /\ RenderIdle
SpecScale == InitScale /\ [][NextScale]_vars

(***************************************************************************)
(* Claims about Actor::apply_move (checked under SpecActor)                *)
(***************************************************************************)
Moved == calls # <<>>
PrevRect == collision_rect(prev.collision_bounds)

\* C1: when the sweep of an axis returns None, apply_move leaves that axis'
\* velocity unchanged, the new subpixel lies in 0..255 and
\* pos' * 256 + subpixel' = pos * 256 + subpixel + velocity.
C1_UnobstructedMove ==
    Moved =>
      /\ ~calls[1].ret.some =>
           /\ actor.velocity_x = prev.velocity_x
           /\ actor.subpixel_x \in 0..255
           /\ actor.x * 256 + actor.subpixel_x
                = prev.x * 256 + prev.subpixel_x + prev.velocity_x
      /\ ~calls[2].ret.some =>
           /\ actor.velocity_y = prev.velocity_y
           /\ actor.subpixel_y \in 0..255
           /\ actor.y * 256 + actor.subpixel_y
                = prev.y * 256 + prev.subpixel_y + prev.velocity_y

\* C1 witness: the example x=10, subpixel_x=200, velocity_x=100 moved unobstructed
C1_Witness ==
    /\ Moved /\ ~calls[1].ret.some
    /\ prev.x = 10 /\ prev.subpixel_x = 200 /\ prev.velocity_x = 100
    /\ actor.x = 11 /\ actor.subpixel_x = 44

\* C2 as stated: whenever a sweep returns a revised coordinate, the axis ends
\* with velocity 0, subpixel 0 and the position equal to the revised value
\* itself, with or without collision bounds.
C2_AsStated ==
    Moved =>
      /\ calls[1].ret.some =>
           /\ actor.velocity_x = 0 /\ actor.subpixel_x = 0
           /\ actor.x = calls[1].ret.val
      /\ calls[2].ret.some =>
           /\ actor.velocity_y = 0 /\ actor.subpixel_y = 0
           /\ actor.y = calls[2].ret.val

\* C2 amended: whenever a sweep returns a revised coordinate, the axis ends
\* with velocity 0, subpixel 0 and the position equal to the revised value
\* minus the collision bounds' offset on that axis (0 without bounds).
C2_RevisedMinusOffset ==
    Moved =>
      /\ calls[1].ret.some =>
           /\ actor.velocity_x = 0 /\ actor.subpixel_x = 0
           /\ actor.x = calls[1].ret.val - PrevRect.x
      /\ calls[2].ret.some =>
           /\ actor.velocity_y = 0 /\ actor.subpixel_y = 0
           /\ actor.y = calls[2].ret.val - PrevRect.y

\* C2 witness: an X sweep revised the move of an actor whose bounds have a
\* non-zero x offset and a non-zero velocity
C2_Witness ==
    /\ Moved /\ calls[1].ret.some
    /\ prev.collision_bounds.some /\ prev.collision_bounds.x # 0
    /\ prev.velocity_x # 0 /\ prev.subpixel_x # 0

\* C3: apply_move calls sweep_collision_x first, with the rectangle at the
\* pre-move integer position plus the collision offset, then sweep_collision_y
\* with the same rectangle except that its x is the X outcome (the revised X
\* if the X sweep revised it, otherwise the candidate X).
C3_SweepOrder ==
    Moved =>
      /\ Len(calls) = 2
      /\ calls[1].fn = "sweep_collision_x"
      /\ calls[1].bounds = [x |-> prev.x + PrevRect.x, y |-> prev.y + PrevRect.y,
                            width |-> PrevRect.width, height |-> PrevRect.height]
      /\ calls[1].target
           = ((prev.x * 256 + prev.subpixel_x + prev.velocity_x) \div 256) + PrevRect.x
      /\ calls[2].fn = "sweep_collision_y"
      /\ calls[2].bounds
           = [calls[1].bounds EXCEPT
                !.x = IF calls[1].ret.some THEN calls[1].ret.val ELSE calls[1].target]
      /\ calls[2].target
           = ((prev.y * 256 + prev.subpixel_y + prev.velocity_y) \div 256) + PrevRect.y

\* C3 witness: the X sweep revised X, the Y sweep is obstructed for the
\* uncorrected candidate rectangle but not for the X-corrected one, and the
\* final position differs from the one resolving Y first would give
C3_Witness ==
    /\ Moved /\ calls[1].ret.some
    /\ ~calls[2].ret.some
    /\ sweep_collision_y(walls, [calls[1].bounds EXCEPT !.x = calls[1].target],
                         calls[2].target).some
    /\ LET other == apply_move_y_first(prev, walls).info
       IN  <<actor.x, actor.y>> # <<other.x, other.y>>

(***************************************************************************)
(* Claims about the blend functions (checked under SpecBlend)              *)
(***************************************************************************)
Min2(a, b) == IF a < b THEN a ELSE b
Max2(a, b) == IF a > b THEN a ELSE b

Channels(c) == <<(c \div 1024) % 32, (c \div 32) % 32, c % 32>>

\* C4: per channel, with a the existing and b the incoming value, add_blend
\* yields min(a+b, 31), subtract_blend max(a-b, 0) and multiply_blend
\* min((a*b) div 16, 31); no channel is affected by another.
C4_RawBlendChannels ==
    blend.op = "raw" =>
      \A i \in 1..3 :
        LET a == Channels(blend.existing)[i]
            b == Channels(color)[i]
            r == Channels(pixel)[i]
        IN  /\ blend.mode = "Add" => r = Min2(a + b, 31)
            /\ blend.mode = "Subtract" => r = Max2(a - b, 0)
            /\ blend.mode = "Multiply" => r = Min2((a * b) \div 16, 31)

\* C4 witness: an add that saturates one channel while another does not
C4_Witness ==
    /\ blend.op = "raw" /\ blend.mode = "Add"
    /\ Channels(blend.existing)[1] + Channels(color)[1] > 31
    /\ Channels(blend.existing)[2] + Channels(color)[2] < 31
    /\ Channels(pixel)[1] = 31

\* the channel of blend(source, source) for each base mode
SelfBlend(mode, s) ==
    CASE mode = "Normal" -> s
      [] mode = "Add" -> Min2(s + s, 31)
      [] mode = "Subtract" -> 0
      [] mode = "Multiply" -> Min2((s * s) \div 16, 31)

\* C5: for every base mode and alpha weight a in 1..15, alpha_blend writes per
\* channel ((mixed * (16 - a)) + (existing * a)) div 16, mixed being the
\* channel of blend(source, source); each resulting channel is in 0..31.
C5_AlphaBlendChannels ==
    (blend.op = "alpha" /\ blend.alpha \in 1..15) =>
      LET out(i) == ((SelfBlend(blend.mode, Channels(color)[i]) * (16 - blend.alpha))
                       + (Channels(blend.existing)[i] * blend.alpha)) \div 16
      IN  /\ \A i \in 1..3 : out(i) \in 0..31
          /\ pixel = out(1) * 1024 + out(2) * 32 + out(3)

\* C5 witness: an alpha-weighted Add whose self-blend differs from the source
C5_Witness ==
    /\ blend.op = "alpha" /\ blend.mode = "Add" /\ blend.alpha = 4
    /\ Channels(color)[1] = 10 /\ Channels(blend.existing)[1] = 8
    /\ Channels(pixel)[1] = 17

\* alpha_blend has just run over normal_blend with weight 0
NormalAlphaZero == blend.op = "alpha" /\ blend.mode = "Normal" /\ blend.alpha = 0

\* C12 as stated: for every existing pixel and every 16-bit source colour,
\* alpha_blend with weight 0 over normal_blend writes the pixel value that
\* normal_blend alone writes.
C12_AsStated ==
    NormalAlphaZero => pixel = normal_blend(blend.existing, color)

\* C12 amended: alpha_blend with weight 0 over normal_blend writes the three
\* 5-bit channels of the source colour with bit 15 clear, whatever the
\* existing pixel; that is the value normal_blend alone writes exactly when
\* bit 15 of the source colour is clear.
C12_AgreeOnColourBits ==
    NormalAlphaZero =>
      /\ pixel = color % 32768
      /\ (pixel = normal_blend(blend.existing, color)) <=> (color < 32768)

\* C12 witness: one source colour without bit 15 replacing a different
\* existing pixel on the alpha path, as normal_blend would
C12_Witness ==
    /\ NormalAlphaZero
    /\ color < 32768 /\ blend.existing # color
    /\ pixel = color /\ pixel = normal_blend(blend.existing, color)

(***************************************************************************)
(* Claims about the tile rasterizers (checked under SpecRaster)            *)
(***************************************************************************)
\* the source pixel x of a row: whether it is drawn, and its colour
SourcePixel(depth, data, pal, x) ==
    CASE depth = 4 ->
           LET byte == data[(x \div 2) + 1]
               idx == IF x % 2 = 0 THEN byte % 16 ELSE byte \div 16
           IN  [opaque |-> pal.some /\ idx # 0,
                colour |-> IF pal.some THEN pal.entries[pal.offset + idx + 1] ELSE 0]
      [] depth = 8 ->
           LET idx == data[x + 1]
           IN  [opaque |-> pal.some /\ idx # 0,
                colour |-> IF pal.some THEN pal.entries[pal.offset + idx + 1] ELSE 0]
      [] depth = 16 ->
           LET word == data[2 * x + 1] + 256 * data[2 * x + 2]
           IN  [opaque |-> word < 32768, colour |-> word]

\* C8: each rasterizer changes destination element i of the run only by
\* blending into it the decoded colour of source pixel left + i, and only when
\* that pixel is not transparent (4-bit and 8-bit: palette index # 0, low
\* nibble for even x; 16-bit: top bit of the little-endian word clear);
\* elsewhere the destination element is unchanged.
C8_RasterizerRun ==
    rastered =>
      /\ Len(row_buf) = Len(raster.buf)
      /\ \A i \in 0..(raster.width - 1) :
           LET src == SourcePixel(raster.depth, raster.tile_data, raster.palette,
                                  raster.left + i)
           IN  row_buf[i + 1] = IF src.opaque
                                THEN call_blend_fn(raster.blend, raster.buf[i + 1], src.colour)
                                ELSE raster.buf[i + 1]

\* C8 witness: a 4-bit run starting at an odd x that draws one pixel from a
\* high nibble and skips a transparent one
C8_Witness ==
    /\ rastered /\ raster.depth = 4 /\ raster.left = 1 /\ raster.width = 2
    /\ raster.palette.some
    /\ raster.tile_data[1] = 144 /\ raster.tile_data[2] = 144
    /\ row_buf[1] # raster.buf[1]
    /\ row_buf[2] = raster.buf[2]

(***************************************************************************)
(* Claims about render_layer (checked under SpecLayer)                     *)
(***************************************************************************)
LayerDrawn == drawn.op = "render_layer"
TheLayer == game.map.layers[1]

\* the pixel of the (toroidal) layer shown at buffer position (px, py)
\* (0-based): whether it is drawn, and its colour
LayerPixelAt(g, layer, scroll_x, scroll_y, px, py) ==
    LET ex == effective_scroll(scroll_x, layer.parallax_x, layer.auto_scroll_x, g.frame)
        ey == effective_scroll(scroll_y, layer.parallax_y, layer.auto_scroll_y, g.frame)
        lx == (ex + px) % (layer.tile_width * layer.width)
        ly == (ey + py) % (layer.tile_height * layer.height)
        cell == layer.tiles[(ly \div layer.tile_height) * layer.width
                              + (lx \div layer.tile_width) + 1]
        pitch == ((layer.tile_width * layer.tile_depth) + 7) \div 8
        tile == cell.tile_set.tiles[cell.tile_index + 1]
        y == ly % layer.tile_height
    IN  IF ~cell.some THEN [opaque |-> FALSE, colour |-> 0]
        ELSE SourcePixel(layer.tile_depth,
                         SubSeq(tile.data, y * pitch + 1, (y + 1) * pitch),
                         tile.palette, lx % layer.tile_width)

LayerPixel(layer, px, py) == LayerPixelAt(game, layer, game.scroll_x, game.scroll_y, px, py)

\* C6: with alpha == 0 every opaque layer pixel is composited by the raw blend
\* function of the layer's mode applied to (existing pixel, source colour);
\* with alpha in 1..15 by alpha_blend over that mode; other pixels are kept.
C6_LayerBlendSelection ==
    LayerDrawn =>
      /\ ~drawn.out.oob /\ ~drawn.out.panic
      /\ \A py \in 0..(render_size.height - 1), px \in 0..(render_size.width - 1) :
           LET src == LayerPixel(TheLayer, px, py)
               existing == drawn.before[py + 1][px + 1]
           IN  frame_buf[py + 1][px + 1] =
                 IF ~src.opaque THEN existing
                 ELSE IF TheLayer.alpha = 0
                      THEN call_blend(TheLayer.blend_mode, existing, src.colour)
                      ELSE alpha_blend(existing, src.colour, TheLayer.alpha,
                                       TheLayer.blend_mode)

\* C6 witness: an alpha == 0 Add layer drew an opaque pixel whose result is the
\* saturating sum with the existing pixel and differs from the alpha-wrapped one
C6_Witness ==
    /\ LayerDrawn /\ TheLayer.alpha = 0 /\ TheLayer.blend_mode = "Add"
    /\ \E py \in 0..(render_size.height - 1), px \in 0..(render_size.width - 1) :
         LET src == LayerPixel(TheLayer, px, py)
             existing == drawn.before[py + 1][px + 1]
         IN  /\ src.opaque
             /\ frame_buf[py + 1][px + 1] = add_blend(existing, src.colour)
             /\ frame_buf[py + 1][px + 1] # alpha_blend(existing, src.colour, 0, "Add")

ExtentX == TheLayer.tile_width * TheLayer.width
ExtentY == TheLayer.tile_height * TheLayer.height

\* C10 as stated: the bias of each axis is the smallest multiple of the
\* layer's pixel extent on that axis that is >= 2^30, and the scroll before
\* the bias is (scroll * parallax + auto_scroll * frame) / 256.
C10_AsStated ==
    LayerDrawn =>
      /\ drawn.out.bias_x % ExtentX = 0
      /\ drawn.out.bias_x >= 1073741824 /\ drawn.out.bias_x - ExtentX < 1073741824
      /\ drawn.out.bias_y % ExtentY = 0
      /\ drawn.out.bias_y >= 1073741824 /\ drawn.out.bias_y - ExtentY < 1073741824
      /\ drawn.out.scroll_x - drawn.out.bias_x
           = TruncDiv(game.scroll_x * TheLayer.parallax_x
                        + TheLayer.auto_scroll_x * game.frame, 256)
      /\ drawn.out.scroll_y - drawn.out.bias_y
           = TruncDiv(game.scroll_y * TheLayer.parallax_y
                        + TheLayer.auto_scroll_y * game.frame, 256)

\* C10 amended: the bias of each axis is the largest multiple of the layer's
\* pixel extent on that axis that is <= 2^30, and the scroll before the bias
\* is (scroll * parallax + auto_scroll * frame) / 256 truncated toward zero.
C10_BiasLargestMultipleBelow ==
    LayerDrawn =>
      /\ drawn.out.bias_x % ExtentX = 0
      /\ drawn.out.bias_x <= 1073741824 /\ drawn.out.bias_x + ExtentX > 1073741824
      /\ drawn.out.bias_y % ExtentY = 0
      /\ drawn.out.bias_y <= 1073741824 /\ drawn.out.bias_y + ExtentY > 1073741824
      /\ LET nx == game.scroll_x * TheLayer.parallax_x
                     + TheLayer.auto_scroll_x * game.frame
             ny == game.scroll_y * TheLayer.parallax_y
                     + TheLayer.auto_scroll_y * game.frame
             qx == drawn.out.scroll_x - drawn.out.bias_x
             qy == drawn.out.scroll_y - drawn.out.bias_y
         IN  /\ IF nx >= 0 THEN 256 * qx <= nx /\ nx < 256 * (qx + 1)
                ELSE 256 * (qx - 1) < nx /\ nx <= 256 * qx
             /\ IF ny >= 0 THEN 256 * qy <= ny /\ ny < 256 * (qy + 1)
                ELSE 256 * (qy - 1) < ny /\ ny <= 256 * qy

\* C10 witness: a layer whose extent does not divide 2^30, scrolled by a
\* negative amount that is not a multiple of 256
C10_Witness ==
    /\ LayerDrawn
    /\ 1073741824 % ExtentX # 0
    /\ drawn.out.bias_x < 1073741824
    /\ game.scroll_x * TheLayer.parallax_x + TheLayer.auto_scroll_x * game.frame < 0
    /\ (game.scroll_x * TheLayer.parallax_x + TheLayer.auto_scroll_x * game.frame) % 256 # 0

(***************************************************************************)
(* Claims about render_frame (checked under SpecFrame)                     *)
(***************************************************************************)
FrameDrawn == drawn.op = "render_frame"

\* sprite k of actor a at buffer position (px, py) (0-based): whether one of
\* its opaque pixels lands there, and the colour of that pixel
SpritePixel(g, a, k, px, py) ==
    LET sprite == g.actors[a].sprites[k]
        anim == sprite.animation
        x == px - (g.actors[a].x + sprite.x_offset - g.scroll_x)
        y == py - (g.actors[a].y + sprite.y_offset - g.scroll_y)
        pitch == ((anim.width * anim.depth) + 7) \div 8
    IN  IF x < 0 \/ x >= anim.width \/ y < 0 \/ y >= anim.height
        THEN [opaque |-> FALSE, colour |-> 0]
        ELSE SourcePixel(anim.depth, SubSeq(anim.data, y * pitch + 1, (y + 1) * pitch),
                         anim.palette, x)

\* the sprites of the snapshot in drawing order, as <<actor, sprite>> pairs
RECURSIVE SpriteOrderFrom(_, _)
SpriteOrderFrom(g, a) ==
    IF a > Len(g.actors) THEN <<>>
    ELSE [k \in 1..Len(g.actors[a].sprites) |-> <<a, k>>] \o SpriteOrderFrom(g, a + 1)

SpriteOrder(g) == SpriteOrderFrom(g, 1)

ExpectedLog(g) ==
    << [op |-> "fill", a |-> 0, b |-> 0] >>
    \o [i \in 1..Len(g.map.layers) |-> [op |-> "map_layer", a |-> i, b |-> 0]]
    \o [j \in 1..(2 * Len(g.ui_layers)) |->
          [op |-> IF j % 2 = 1 THEN "ui_update" ELSE "ui_layer", a |-> (j + 1) \div 2,
           b |-> 0]]
    \o [n \in 1..Len(SpriteOrder(g)) |->
          [op |-> "sprite", a |-> SpriteOrder(g)[n][1], b |-> SpriteOrder(g)[n][2]]]

\* the UI layer's offset: (render size - layer size) / 2, truncated toward zero
CentredScroll(size, map_layer) ==
    [x |-> LET d == size.width - map_layer.width * map_layer.tile_width
           IN  IF d >= 0 THEN d \div 2 ELSE -((-d) \div 2),
     y |-> LET d == size.height - map_layer.height * map_layer.tile_height
           IN  IF d >= 0 THEN d \div 2 ELSE -((-d) \div 2)]

\* C9: render_frame draws the background fill, then every map layer in
\* declared order, then every UI layer (update before composite), then every
\* actor's sprites in actor and attachment order; so wherever opaque sprite
\* pixels land, the buffer ends with the colour of the last-drawn of them,
\* whatever the layers underneath drew.
C9_FrameOrder ==
    FrameDrawn =>
      /\ ~drawn.out.oob /\ ~drawn.out.panic
      /\ drawn.out.log = ExpectedLog(drawn.snapshot)
      /\ \A py \in 0..(render_size.height - 1), px \in 0..(render_size.width - 1) :
           LET order == SpriteOrder(drawn.snapshot)
               hits == { n \in 1..Len(order) :
                           SpritePixel(drawn.snapshot, order[n][1], order[n][2],
                                       px, py).opaque }
               last == CHOOSE n \in hits : \A o \in hits : o <= n
           IN  hits # {} =>
                 frame_buf[py + 1][px + 1]
                   = SpritePixel(drawn.snapshot, order[last][1], order[last][2],
                                 px, py).colour

\* C9 witness: at one pixel an Add map layer, a Multiply UI layer (after its
\* update) and a sprite all draw an opaque pixel, and the buffer holds the
\* sprite's colour
C9_Witness ==
    /\ FrameDrawn
    /\ drawn.snapshot.map.layers[1].blend_mode = "Add"
    /\ game.ui_layers[1].map_layer.blend_mode = "Multiply"
    /\ game.ui_layers[1].map_layer.alpha # 0
    /\ \E py \in 0..(render_size.height - 1), px \in 0..(render_size.width - 1) :
         LET ui == game.ui_layers[1].map_layer
             at == CentredScroll(render_size, ui)
         IN  /\ LayerPixelAt(game, game.map.layers[1], game.scroll_x, game.scroll_y,
                             px, py).opaque
             /\ LayerPixelAt(game, ui, at.x, at.y, px, py).opaque
             /\ SpritePixel(game, 1, 1, px, py).opaque
             /\ ~SpritePixel(game, 1, 2, px, py).opaque
             /\ frame_buf[py + 1][px + 1] = SpritePixel(game, 1, 1, px, py).colour
             /\ frame_buf[py + 1][px + 1] # drawn.before[py + 1][px + 1]

(***************************************************************************)
(* Claims about the tile walk of render_layer_with_blending (SpecLayer)    *)
(***************************************************************************)
\* the tile range of lines 327-334, from the biased scroll of the call
LeftTile == drawn.out.scroll_x \div TheLayer.tile_width
LeftPixel == drawn.out.scroll_x % TheLayer.tile_width
TopTile == drawn.out.scroll_y \div TheLayer.tile_height
TopPixel == drawn.out.scroll_y % TheLayer.tile_height

\* the destination cursor that belongs to a tile column / row: 0 for the
\* first, then the remaining part of the first tile plus full tiles
CursorX(tile_x) ==
    IF tile_x = LeftTile THEN 0
    ELSE (TheLayer.tile_width - LeftPixel) + (tile_x - LeftTile - 1) * TheLayer.tile_width

CursorY(tile_y) ==
    IF tile_y = TopTile THEN 0
    ELSE (TheLayer.tile_height - TopPixel) + (tile_y - TopTile - 1) * TheLayer.tile_height

\* the tile-renderer calls whose destination slice holds buffer pixel (px, py)
CallsAt(px, py) ==
    { n \in 1..Len(drawn.out.calls) :
        /\ drawn.out.calls[n].y = py
        /\ drawn.out.calls[n].x <= px
        /\ px < drawn.out.calls[n].x + drawn.out.calls[n].width }

\* the visited map cells whose destination rectangle holds pixel (px, py)
CellsAt(px, py) ==
    { n \in 1..Len(drawn.out.cells) :
        /\ drawn.out.cells[n].target_x <= px
        /\ px < CursorX(drawn.out.cells[n].tile_x + 1)
        /\ drawn.out.cells[n].target_y <= py
        /\ py < CursorY(drawn.out.cells[n].tile_y + 1) }

\* C11: render_layer_with_blending never indexes outside the buffer and visits
\* each pixel (px, py) of the render size exactly once: from the map cell at
\* column ((sx+px) div tile_width) mod width and row ((sy+py) div tile_height)
\* mod height, at in-tile position ((sx+px) mod tile_width, (sy+py) mod
\* tile_height), leaving it untouched when the cell is empty; the destination
\* cursor advances by the rest of the first tile after the first row/column
\* and by a full tile afterwards.
C11_TileWalk ==
    LayerDrawn =>
      /\ ~drawn.out.oob /\ ~drawn.out.panic
      /\ \A n \in 1..Len(drawn.out.cells) :
           /\ drawn.out.cells[n].target_x = CursorX(drawn.out.cells[n].tile_x)
           /\ drawn.out.cells[n].target_y = CursorY(drawn.out.cells[n].tile_y)
      /\ \A n \in 1..Len(drawn.out.calls) :
           /\ drawn.out.calls[n].y < render_size.height
           /\ drawn.out.calls[n].x + drawn.out.calls[n].width <= render_size.width
      /\ \A py \in 0..(render_size.height - 1), px \in 0..(render_size.width - 1) :
           LET sx == drawn.out.scroll_x + px
               sy == drawn.out.scroll_y + py
               col == (sx \div TheLayer.tile_width) % TheLayer.width
               row == (sy \div TheLayer.tile_height) % TheLayer.height
               cell == TheLayer.tiles[row * TheLayer.width + col + 1]
           IN  /\ Cardinality(CellsAt(px, py)) = 1
               /\ \A n \in CellsAt(px, py) :
                    /\ drawn.out.cells[n].tile_x = sx \div TheLayer.tile_width
                    /\ drawn.out.cells[n].tile_y = sy \div TheLayer.tile_height
                    /\ drawn.out.cells[n].some = cell.some
               /\ IF cell.some
                  THEN /\ Cardinality(CallsAt(px, py)) = 1
                       /\ \A n \in CallsAt(px, py) :
                            /\ drawn.out.calls[n].col = col
                            /\ drawn.out.calls[n].row = row
                            /\ drawn.out.calls[n].pixel_y = sy % TheLayer.tile_height
                            /\ drawn.out.calls[n].left + (px - drawn.out.calls[n].x)
                                 = sx % TheLayer.tile_width
                  ELSE /\ CallsAt(px, py) = {}
                       /\ frame_buf[py + 1][px + 1] = drawn.before[py + 1][px + 1]

\* C11 witness: the walk starts inside a tile on both axes, crosses a full
\* middle column of tiles and a second row, and meets an empty cell and a
\* populated one
C11_Witness ==
    /\ LayerDrawn
    /\ LeftPixel > 0 /\ TopPixel > 0
    /\ \E n \in 1..Len(drawn.out.cells) :
         /\ drawn.out.cells[n].tile_x = LeftTile + 2
         /\ drawn.out.cells[n].tile_y = TopTile + 1
         /\ drawn.out.cells[n].target_x = TheLayer.tile_width - LeftPixel + TheLayer.tile_width
         /\ drawn.out.cells[n].target_y = TheLayer.tile_height - TopPixel
    /\ \E n, o \in 1..Len(drawn.out.cells) :
         drawn.out.cells[n].some /\ ~drawn.out.cells[o].some
    /\ \E py \in 0..(render_size.height - 1), px \in 0..(render_size.width - 1) :
         CallsAt(px, py) # {} /\ frame_buf[py + 1][px + 1] # drawn.before[py + 1][px + 1]

(***************************************************************************)
(* Claims about compute_render_sizes (checked under SpecScale)             *)
(***************************************************************************)
\* the integer scales whose pre-scaled height lies in [min_height, max_height]
FittingScales ==
    { sc \in 1..(window.height + 1) :
        /\ target.min_height <= window.height \div sc
        /\ window.height \div sc <= target.max_height }

WithinAspectClamps ==
    /\ window.height > 0
    /\ target.min_aspect_ratio.num * window.height
         <= window.width * target.min_aspect_ratio.den
    /\ window.width * target.max_aspect_ratio.den
         <= target.max_aspect_ratio.num * window.height

\* C7: in PixelPerfect mode, whenever some integer scale s >= 1 gives
\* window_height div s in [min_height, max_height], the target height is
\* window_height div s for the smallest such s, and it is the returned render
\* height when the window's aspect ratio lies within the aspect clamps.
C7_PixelPerfectScale ==
    (window.given /\ target.mode = "PixelPerfect" /\ FittingScales # {}) =>
      LET smallest == CHOOSE sc \in FittingScales : \A o \in FittingScales : sc <= o
      IN  /\ sizes.target_height = window.height \div smallest
          /\ WithinAspectClamps =>
               ~sizes.panic /\ sizes.render.height = window.height \div smallest

\* C7 witness: window_height=1000, min_height=200, max_height=300 gives
\* scale 4 (scales 1..3 give 1000, 500, 333) and render height 250
C7_Witness ==
    /\ window.given /\ target.mode = "PixelPerfect"
    /\ window.height = 1000 /\ window.width = 1600
    /\ target.min_height = 200 /\ target.max_height = 300
    /\ FittingScales = {4, 5}
    /\ WithinAspectClamps
    /\ sizes.render.height = 250

====
